---- MODULE Spec2Model ----
(***************************************************************************)
(* Model of the H.264 TCP viewer's ingestion engine (server-h264/src):     *)
(* the session function accept_and_stream, the length-prefixed reader, the *)
(* control channel handler, the NAL normalizer, the Annex-B reader with    *)
(* its start-code scanner, and the bounded frame hand-off queue.           *)
(*                                                                         *)
(* Byte strings (Vec<u8>, &[u8], the bytes in flight on the socket) are    *)
(* run-length encoded: a sequence of <<byte, count>> runs, counts >= 1,    *)
(* neighbouring runs of different bytes.  The code only ever looks at the  *)
(* first bytes of a payload and scans for 00 bytes, so a 16 MiB payload or *)
(* a 4 MiB buffer is one long run and the program's real size constants    *)
(* are kept.                                                               *)
(***************************************************************************)
EXTENDS Integers, Sequences, FiniteSets, TLC

\* ------------------------------------------------------------ byte strings

RECURSIVE BLen(_)
\* buf.len()
BLen(s) == IF s = <<>> THEN 0 ELSE s[1][2] + BLen(Tail(s))

\* extend_from_slice: a followed by b
BCat(a, b) ==
  IF a = <<>> THEN b
  ELSE IF b = <<>> THEN a
  ELSE IF a[Len(a)][1] = b[1][1]
       THEN SubSeq(a, 1, Len(a) - 1)
              \o << <<b[1][1], a[Len(a)][2] + b[1][2]>> >> \o Tail(b)
       ELSE a \o b

RECURSIVE B(_)
\* a byte-string literal, e.g. B(<<0, 0, 0, 1>>) for [0x00, 0x00, 0x00, 0x01]
B(seq) == IF seq = <<>> THEN <<>> ELSE BCat(<< <<seq[1], 1>> >>, B(Tail(seq)))

\* n bytes of value b (vec![b; n])
Fill(b, n) == IF n <= 0 THEN <<>> ELSE << <<b, n>> >>

RECURSIVE BTake(_, _)
\* buf[..k]
BTake(s, k) ==
  IF k <= 0 \/ s = <<>> THEN <<>>
  ELSE IF s[1][2] >= k THEN << <<s[1][1], k>> >>
  ELSE <<s[1]>> \o BTake(Tail(s), k - s[1][2])

RECURSIVE BDrop(_, _)
\* buf[k..]; buf.drain(..k) leaves it
BDrop(s, k) ==
  IF k <= 0 \/ s = <<>> THEN s
  ELSE IF s[1][2] > k THEN << <<s[1][1], s[1][2] - k>> >> \o Tail(s)
  ELSE BDrop(Tail(s), k - s[1][2])

\* buf[a..b]
BSlice(s, a, b) == BTake(BDrop(s, a), b - a)

RECURSIVE BAt(_, _)
\* buf[i], for 0 <= i < buf.len()
BAt(s, i) == IF i < s[1][2] THEN s[1][1] ELSE BAt(Tail(s), i - s[1][2])

RECURSIVE NextZeroFrom(_, _, _)
NextZeroFrom(s, i, base) ==
  IF s = <<>> THEN base
  ELSE LET e == base + s[1][2]
       IN  IF i < e /\ s[1][1] = 0 THEN (IF i > base THEN i ELSE base)
           ELSE NextZeroFrom(Tail(s), i, e)

\* the least j >= i with buf[j] = 0x00, or buf.len() when there is none
NextZero(s, i) == NextZeroFrom(s, i, 0)

\* ------------------------------------------------------------ constants

\* const MAX_NAL_SIZE: u32 = 16 * 1024 * 1024
MAX_NAL_SIZE == 16 * 1024 * 1024

\* const CTRL_MAGIC: &[u8; 4] = b"CTRL"
CTRL_MAGIC == B(<<67, 84, 82, 76>>)

\* the 4-byte start code [0x00, 0x00, 0x00, 0x01]
START_CODE4 == B(<<0, 0, 0, 1>>)

\* the 3-byte start code 00 00 01
START_CODE3 == B(<<0, 0, 1>>)

\* let mut tmp = [0u8; 64 * 1024]: the most one socket read returns
TMP_SIZE == 64 * 1024

\* if buf.len() > 4 * 1024 * 1024
BUF_CEILING == 4 * 1024 * 1024

\* let keep = buf.len() - 1024 * 1024
BUF_TAIL == 1024 * 1024

\* bounded::<RgbFrame>(4)
QUEUE_CAP == 4

\* Option::None of find_start_code's Option<usize>
NONE == -1

\* ------------------------------------------------------------ pure functions

\* u32::from_be_bytes(len_buf)
U32FromBe(b4) ==
  ((BAt(b4, 0) * 256 + BAt(b4, 1)) * 256 + BAt(b4, 2)) * 256 + BAt(b4, 3)

\* u16::from_be_bytes([hi, lo]) as u32
U16FromBe(hi, lo) == hi * 256 + lo

RECURSIVE ScanStartCode(_, _)
\* the for loop of find_start_code, i in offset..buf.len() - 2.  An index
\* whose byte is not 0x00 fails the loop's first test, so the scan goes
\* straight on to the next index that holds 0x00.
ScanStartCode(buf, i) ==
  LET n == BLen(buf)
  IN  IF i >= n - 2 THEN NONE
      ELSE IF BAt(buf, i) # 0 THEN ScanStartCode(buf, NextZero(buf, i))
      ELSE IF BAt(buf, i + 1) = 0
              /\ (BAt(buf, i + 2) = 1
                  \/ (i + 3 < n /\ BAt(buf, i + 2) = 0 /\ BAt(buf, i + 3) = 1))
           THEN i
      ELSE ScanStartCode(buf, i + 1)

RECURSIVE ScanStartCode3(_, _)
ScanStartCode3(buf, i) ==
  IF i >= BLen(buf) - 2 THEN NONE
  ELSE IF BAt(buf, i) = 0 /\ BAt(buf, i + 1) = 0 /\ BAt(buf, i + 2) = 1 THEN i
  ELSE ScanStartCode3(buf, i + 1)

\* faulty variant of find_start_code: only 00 00 01 is recognised, so a
\* 4-byte start code is found one byte late
find_start_code_Only3(buf, offset) ==
  IF BLen(buf) < offset + 3 THEN NONE ELSE ScanStartCode3(buf, offset)

\* fn find_start_code(buf: &[u8], offset: usize) -> Option<usize>
find_start_code(buf, offset) ==
  IF BLen(buf) < offset + 3 THEN NONE ELSE ScanStartCode(buf, offset)

\* buf[i] as the scanner reads it: indexing at or past buf.len() panics
Rd(buf, i) == IF i < BLen(buf) THEN BAt(buf, i) ELSE -1

\* faulty variant of the scanner's bound test: buf[i + 3] read unguarded
FourthInRange_Unchecked(buf, i) == TRUE

\* `i + 3 < buf.len()` in find_start_code
FourthInRange(buf, i) == i + 3 < BLen(buf)

\* One iteration of find_start_code's for loop at index i: whether it
\* returns Some(i), and the highest index it reads (&& and || evaluate from
\* the left and stop as soon as the outcome is known).
ScanIter(buf, i) ==
  LET zz == Rd(buf, i) = 0 /\ Rd(buf, i + 1) = 0
  IN  [hit |-> zz /\ (Rd(buf, i + 2) = 1
                       \/ (FourthInRange(buf, i) /\ Rd(buf, i + 2) = 0
                            /\ Rd(buf, i + 3) = 1)),
       hi  |-> IF Rd(buf, i) # 0 THEN i
               ELSE IF Rd(buf, i + 1) # 0 THEN i + 1
               ELSE IF Rd(buf, i + 2) = 1 THEN i + 2
               ELSE IF FourthInRange(buf, i) /\ Rd(buf, i + 2) = 0 THEN i + 3
               ELSE i + 2]

\* let has_start_code = ... in decode_nal_buffer
has_start_code(nal_buf) ==
  /\ BLen(nal_buf) >= 4
  /\ BAt(nal_buf, 0) = 0
  /\ BAt(nal_buf, 1) = 0
  /\ (BAt(nal_buf, 2) = 1 \/ (BAt(nal_buf, 2) = 0 /\ BAt(nal_buf, 3) = 1))

\* The index decode_nal_buffer reads the NAL type from: nal_buf[3] or
\* nal_buf[4] with a start code, nal_buf[0] without.
NalTypeIndex(nal_buf) ==
  IF has_start_code(nal_buf)
  THEN (IF BAt(nal_buf, 2) = 1 THEN 3 ELSE 4)
  ELSE 0

\* Indexing a slice at or past its length panics (Rust bounds check).
DecodeNalPanics(nal_buf) == NalTypeIndex(nal_buf) >= BLen(nal_buf)

\* faulty variant of the normaliser: the payload is passed as it came
NormalizedPacket_Bare(nal_buf) == nal_buf

\* let packet = ... in decode_nal_buffer: what is handed to decoder.decode
NormalizedPacket(nal_buf) ==
  IF has_start_code(nal_buf) THEN nal_buf ELSE BCat(START_CODE4, nal_buf)

\* faulty variant of handle_control_message: the angle read little-endian
handle_control_message_LittleEndian(data, rot) ==
  IF BLen(data) = 0 THEN rot
  ELSE IF BAt(data, 0) = 1
       THEN (IF BLen(data) >= 3
             THEN U16FromBe(BAt(data, 2), BAt(data, 1))
             ELSE rot)
  ELSE rot

\* faulty variant of handle_control_message: the tag is not looked at
handle_control_message_AnyTag(data, rot) ==
  IF BLen(data) >= 3 THEN U16FromBe(BAt(data, 1), BAt(data, 2)) ELSE rot

\* fn handle_control_message(data, rotation): the rotation value it leaves
handle_control_message(data, rot) ==
  IF BLen(data) = 0 THEN rot
  ELSE IF BAt(data, 0) = 1
       THEN (IF BLen(data) >= 3
             THEN U16FromBe(BAt(data, 1), BAt(data, 2))
             ELSE rot)
  ELSE rot

\* faulty variants of the length check: no upper limit, no test for 0, and
\* 16 MiB itself refused
SuspiciousLength_ZeroOnly(payload_len) == payload_len = 0

SuspiciousLength_NoZero(payload_len) == payload_len > MAX_NAL_SIZE

SuspiciousLength_Inclusive(payload_len) ==
  payload_len = 0 \/ payload_len >= MAX_NAL_SIZE

\* if payload_len == 0 || payload_len > MAX_NAL_SIZE
SuspiciousLength(payload_len) == payload_len = 0 \/ payload_len > MAX_NAL_SIZE

\* if buf.len() >= 4 && &buf[0..4] == CTRL_MAGIC
IsControl(payload) == BLen(payload) >= 4 /\ BTake(payload, 4) = CTRL_MAGIC

\* faulty variant of try_send: a full channel drops its oldest frame
try_send_DropOldest(q, frame) ==
  IF Len(q) < QUEUE_CAP THEN Append(q, frame) ELSE Append(Tail(q), frame)

\* frame_tx.try_send(frame) on the bounded(4) channel: the frame is queued
\* unless the channel is full, and then it is dropped (Err(Full) ignored)
try_send(q, frame) == IF Len(q) < QUEUE_CAP THEN Append(q, frame) ELSE q

\* faulty variant of the truncation: the test is against 4 MiB + 64 KiB
TruncateBuffer_Late(b) ==
  IF BLen(b) > BUF_CEILING + TMP_SIZE THEN BDrop(b, BLen(b) - BUF_TAIL) ELSE b

\* faulty variant of the truncation: the first 1 MiB is kept, not the last
TruncateBuffer_Head(b) ==
  IF BLen(b) > BUF_CEILING THEN BTake(b, BUF_TAIL) ELSE b

\* "Prevent unbounded growth" at the end of extract_and_decode_nals
TruncateBuffer(b) ==
  IF BLen(b) > BUF_CEILING THEN BDrop(b, BLen(b) - BUF_TAIL) ELSE b

\* faulty variant of the second search: it starts one byte after the first
\* start code's first byte
SecondSearchFrom_Next(start) == start + 1

\* `find_start_code(buf, start + 3)`: where the search for the unit's end
\* starts
SecondSearchFrom(start) == start + 3

\* faulty variant of the drain: only what precedes the unit is removed
Drained_ToStart(b, start, end) == BDrop(b, start)

\* `buf.drain(..end)`
Drained(b, start, end) == BDrop(b, end)

RECURSIVE ExtractLoop(_, _, _, _)
\* The loop of extract_and_decode_nals.  base is the stream offset of
\* buf[0]; outs[k] is what decoder.decode returns for the k-th unit carved in
\* this call ("frame", "none" or "err"); calls collects the decode calls made.
\* decoder.decode(&nal_packet)? returns from the function on "err".
ExtractLoop(b, base, outs, calls) ==
  LET start == find_start_code(b, 0)
      end   == IF start = NONE THEN NONE
               ELSE find_start_code(b, SecondSearchFrom(start))
  IN  IF start = NONE \/ end = NONE
      THEN [buf |-> b, base |-> base, calls |-> calls, err |-> FALSE]
      ELSE LET k    == Len(calls) + 1
               res  == IF k \in DOMAIN outs THEN outs[k] ELSE "none"
               call == [pkt |-> BSlice(b, start, end), res |-> res,
                        at |-> base + start, n |-> end - start]
           IN  IF res = "err"
               THEN [buf |-> b, base |-> base,
                     calls |-> Append(calls, call), err |-> TRUE]
               ELSE ExtractLoop(Drained(b, start, end), base + end, outs,
                                Append(calls, call))

\* fn extract_and_decode_nals(buf, decoder, frame_tx) -> Result<()>.  rest is
\* the buffer as the loop leaves it, before the test against 4 MiB.
extract_and_decode_nals(b, base, outs) ==
  LET r == ExtractLoop(b, base, outs, <<>>)
  IN  [buf   |-> IF r.err THEN r.buf ELSE TruncateBuffer(r.buf),
       base  |-> r.base,
       calls |-> r.calls,
       err   |-> r.err,
       rest  |-> r.buf]

\* how many units one call of extract_and_decode_nals carves when no decode fails
NalCount(b) == Len(ExtractLoop(b, 0, <<>>, <<>>).calls)

\* ------------------------------------------------------------ discovery

\* const DISCOVERY_MESSAGE: &[u8] = b"CAMSTREAM_DISCOVER"
DISCOVERY_MESSAGE ==
  B(<<67, 65, 77, 83, 84, 82, 69, 65, 77, 95, 68, 73, 83, 67, 79, 86, 69, 82>>)

\* const RESPONSE_PREFIX: &str = "CAMSTREAM_SERVER:"
RESPONSE_PREFIX ==
  B(<<67, 65, 77, 83, 84, 82, 69, 65, 77, 95, 83, 69, 82, 86, 69, 82, 58>>)

\* port: 8554 in parse_args, the port when --port is not given
DEFAULT_PORT == 8554

\* let mut buf = [0u8; 256]: what recv_from can return of one datagram
UDP_BUF_SIZE == 256

RECURSIVE Decimal(_)
\* format!("{}", n) of an unsigned integer: its decimal digits in ASCII, the
\* most significant first, no sign and no leading zero
Decimal(n) ==
  IF n < 10 THEN <<48 + n>> ELSE Append(Decimal(n \div 10), 48 + (n % 10))

\* let response = format!("{}{}", RESPONSE_PREFIX, tcp_port)
Response(tcp_port) == BCat(RESPONSE_PREFIX, B(Decimal(tcp_port)))

\* ------------------------------------------------------------ the converter

\* `(x).clamp(0.0, 255.0) as u8` of a value given in millionths: below 0 it
\* is 0, above 255 it is 255, and the cast drops the fraction
ClampU8(micro) ==
  IF micro < 0 THEN 0
  ELSE IF micro > 255 * 1000000 THEN 255
  ELSE micro \div 1000000

\* the BT.601 conversion of one pixel, <<r, g, b>>, the coefficients of the
\* source in millionths (the source computes in f32, whose rounding can
\* differ from this in the last unit)
Bt601(y_val, u_byte, v_byte) ==
  LET u_val == u_byte - 128
      v_val == v_byte - 128
  IN  << ClampU8(y_val * 1000000 + 1402000 * v_val),
         ClampU8(y_val * 1000000 - 344136 * u_val - 714136 * v_val),
         ClampU8(y_val * 1000000 + 1772000 * u_val) >>

\* faulty variant of the bounds check: only the luma index is tested
PixelSkipped_LumaOnly(c, y_idx, u_idx, v_idx) == y_idx >= Len(c.y_data)

\* `if y_idx >= y_data.len() || u_idx >= u_data.len() || v_idx >= v_data.len()
\* { continue; }`
PixelSkipped(c, y_idx, u_idx, v_idx) ==
  y_idx >= Len(c.y_data) \/ u_idx >= Len(c.u_data) \/ v_idx >= Len(c.v_data)

\* One iteration of the inner loop of yuv420_to_rgba at (c.row, c.col):
\* whether it indexes a plane or rgba out of range (a panic), and rgba after
\* it.  Sequences are indexed from 1, the slices of the source from 0.
ConvPixel(c) ==
  LET y_idx  == c.row * c.y_stride + c.col
      uv_row == c.row \div 2
      uv_col == c.col \div 2
      u_idx  == uv_row * c.u_stride + uv_col
      v_idx  == uv_row * c.v_stride + uv_col
      idx    == (c.row * c.w + c.col) * 4
  IN  IF PixelSkipped(c, y_idx, u_idx, v_idx)
      THEN [panic |-> FALSE, rgba |-> c.rgba, skipped |-> TRUE]
      ELSE IF y_idx >= Len(c.y_data) \/ u_idx >= Len(c.u_data)
              \/ v_idx >= Len(c.v_data) \/ idx + 2 >= Len(c.rgba)
      THEN [panic |-> TRUE, rgba |-> c.rgba, skipped |-> FALSE]
      ELSE LET px == Bt601(c.y_data[y_idx + 1], c.u_data[u_idx + 1],
                           c.v_data[v_idx + 1])
           IN  [panic   |-> FALSE,
                rgba    |-> [c.rgba EXCEPT ![idx + 1] = px[1],
                                           ![idx + 2] = px[2],
                                           ![idx + 3] = px[3]],
                skipped |-> FALSE]

\* ------------------------------------------------------------ the socket

RECURSIVE NetLen(_)
\* the bytes the peer has sent and the reader has not read yet
NetLen(chunks) ==
  IF chunks = <<>> THEN 0 ELSE BLen(Head(chunks)) + NetLen(Tail(chunks))

RECURSIVE NetBytes(_)
NetBytes(chunks) ==
  IF chunks = <<>> THEN <<>> ELSE BCat(Head(chunks), NetBytes(Tail(chunks)))

\* the k bytes reader.read_exact(&mut [0u8; k]) fills in
NetTake(chunks, k) == BTake(NetBytes(chunks), k)

RECURSIVE NetDrop(_, _)
\* what is left in flight after k bytes were read
NetDrop(chunks, k) ==
  IF chunks = <<>> THEN <<>>
  ELSE IF k = 0 THEN chunks
  ELSE IF BLen(Head(chunks)) <= k
       THEN NetDrop(Tail(chunks), k - BLen(Head(chunks)))
  ELSE <<BDrop(Head(chunks), k)>> \o Tail(chunks)

\* ------------------------------------------------------------ forced modes

\* what decoder.decode returns for the k-th packet a session hands it, given
\* the results res of the calls of another session on the same stream
ResultOf(res, k) == IF k \in DOMAIN res THEN res[k] ELSE "none"

RECURSIVE ForcedLengthPrefixed(_, _, _, _)
\* FramingMode::LengthPrefixed on a connection that delivers bytes and is
\* then closed, with running true throughout: the packets handed to the
\* decoder and the rotation values left by handle_control_message, in order
\* (read_length_prefixed, read_one_payload, decode_nal_buffer).
ForcedLengthPrefixed(bytes, rot, pkts, rots) ==
  IF BLen(bytes) < 4 THEN [pkts |-> pkts, rots |-> rots]
  ELSE LET payload_len == U32FromBe(BTake(bytes, 4))
           rest        == BDrop(bytes, 4)
           payload     == BTake(rest, payload_len)
       IN  IF SuspiciousLength(payload_len)
           THEN ForcedLengthPrefixed(rest, rot, pkts, rots)
           ELSE IF BLen(rest) < payload_len
           THEN [pkts |-> pkts, rots |-> rots]
           ELSE IF IsControl(payload)
           THEN LET r == handle_control_message(BDrop(payload, 4), rot)
                IN  ForcedLengthPrefixed(BDrop(rest, payload_len), r, pkts,
                                         Append(rots, r))
           ELSE IF DecodeNalPanics(payload)
           THEN [pkts |-> pkts, rots |-> rots]
           ELSE ForcedLengthPrefixed(BDrop(rest, payload_len), rot,
                                     Append(pkts, NormalizedPacket(payload)),
                                     rots)

RECURSIVE ForcedAnnexB(_, _, _, _)
\* FramingMode::AnnexB on a connection whose arrivals are chunks and which
\* is then closed, with running true throughout: the packets handed to the
\* decoder, in order (read_annexb, extract_and_decode_nals).  b is the
\* accumulation buffer, res what decoder.decode returns call by call.
ForcedAnnexB(chunks, b, res, pkts) ==
  IF chunks = <<>> THEN [pkts |-> pkts, rots |-> <<>>]
  ELSE LET n    == IF BLen(Head(chunks)) < TMP_SIZE
                   THEN BLen(Head(chunks)) ELSE TMP_SIZE
           buf1 == BCat(b, BTake(Head(chunks), n))
           outs == [j \in 1..NalCount(buf1) |-> ResultOf(res, Len(pkts) + j)]
           r    == extract_and_decode_nals(buf1, 0, outs)
           all  == pkts \o [j \in 1..Len(r.calls) |-> r.calls[j].pkt]
       IN  IF r.err THEN [pkts |-> all, rots |-> <<>>]
           ELSE ForcedAnnexB(NetDrop(chunks, n), r.buf, res, all)

\* ------------------------------------------------------------ state

VARIABLES
  mode,      \* FramingMode of the configuration: "Auto", "LengthPrefixed", "AnnexB"
  running,   \* the shared AtomicBool
  rotation,  \* the shared AtomicU32
  net,       \* the connection: the chunks in flight, each what one arrival
             \* delivers; how it ends after them is conns[sid].ending
  pos,       \* how many bytes of the connection the session has read
  pc,        \* where the network task is: "accept" (top of main's loop),
             \* "listening" (in listener.accept), "peek", "lp", "annexb",
             \* "blocked" (in a read that never completes), "returned"
             \* (accept_and_stream returned), "backoff" (the 1 s sleep),
             \* "panicked", "exit"
  result,    \* what accept_and_stream returned: "none" (still running), "ok",
             \* "io_error", "decode_error"
  buf,       \* the Annex-B accumulation buffer
  queue,     \* the frames in the bounded(4) channel, oldest first
  decoded,   \* history: every decoder.decode call, in order
  ctrl,      \* history: every handle_control_message call, in order
  frames,    \* history: every length field read by the length-prefixed reader
  lastRead,  \* history: the latest Annex-B read and what extraction did with it
  offers,    \* history: every try_send, with the channel's length before it
  taken,     \* history: every frame the renderer received, in order
  conns,     \* the environment: what the k-th call of accept_and_stream
             \* meets, a bind error or a peer's connection; after the last
             \* one no peer connects any more
  sid,       \* how many times main has called accept_and_stream
  active,    \* the calls of accept_and_stream that have not returned to main
  log,       \* history: what the session loop did and met, in order
  pcD,       \* where the discovery task is: "bind", "check" (the while
             \* test), "recv" (in timeout(recv_from)), "stopped", "failed",
             \* "cancelled" (dropped with the runtime)
  truncs,    \* history: how often this session cut its Annex-B buffer
  decoder,   \* the session's H264Decoder: how many packets it was given
  scan,      \* one call of find_start_code, taken one loop iteration at a time
  port,      \* config.port, the TCP port of the configuration
  dgrams,    \* the environment: the datagrams still to arrive at the
             \* discovery socket, in order
  udp,       \* history: every datagram the discovery task received, with
             \* the reply it sent, if any
  conv,      \* one call of yuv420_to_rgba, taken one pixel at a time
  ext        \* one call of extract_and_decode_nals, taken one loop
             \* iteration at a time

vars == <<mode, running, rotation, net, pos, pc, result, buf, queue,
          decoded, ctrl, frames, lastRead, offers, taken,
          conns, sid, active, log, pcD, truncs, decoder, scan,
          port, dgrams, udp, conv, ext>>

hist == <<decoded, ctrl, frames, lastRead, offers, taken>>

\* what the session loop's own steps leave alone
sess == <<conns, sid, active, log>>

\* the discovery socket: the configured port, what arrives, what was done
disc == <<port, dgrams, udp>>

\* the discovery task and the functions under test
aside == <<pcD, scan, disc, conv, ext>>

\* what decoder.decode returns: Ok(Some(frame)), Ok(None), Err(_)
DecRes == {"frame", "none", "err"}

\* how the connection ends after the bytes in flight: the peer closes it
\* ("eof"), it fails with an error such as a reset ("reset"), or the peer
\* keeps it open and sends nothing more ("open")
Ending == conns[sid].ending

\* an entry of log
Event(ev, at, got) == [ev |-> ev, at |-> at, got |-> got, sid |-> sid]

\* ------------------------------------------------------------ actions

RECURSIVE SendFrames(_, _, _)
\* `let _ = frame_tx.try_send(frame)` for every call that returned a frame.
\* A frame is named by its number among the frames offered.
SendFrames(q, offs, calls) ==
  IF calls = <<>> THEN [queue |-> q, offers |-> offs]
  ELSE IF Head(calls).res = "frame"
       THEN SendFrames(try_send(q, Len(offs) + 1),
                       Append(offs, [frame |-> Len(offs) + 1, qlen |-> Len(q)]),
                       Tail(calls))
  ELSE SendFrames(q, offs, Tail(calls))

\* main's accept loop: `if !running { break }`; block_on returns and the
\* runtime is dropped, and with it the discovery task if it still runs
SessionLoopExit ==
  /\ pc = "accept"
  /\ ~running
  /\ pc' = "exit"
  /\ pcD' = IF pcD \in {"stopped", "failed"} THEN pcD ELSE "cancelled"
  /\ UNCHANGED <<mode, running, rotation, net, pos, result, buf, queue, hist,
                 sess, truncs, decoder, scan, disc, conv, ext>>

\* faulty variant of main's loop: sessions are spawned, not awaited, so the
\* loop comes back to its top while a session still runs
SessionAwaited_Spawned(p) == p \in {"accept", "peek", "lp", "annexb"}

\* main awaits accept_and_stream(..): the loop is at its top only when no
\* call is under way (first pass, after Ok, after the sleep that follows Err)
SessionAwaited(p) == p = "accept"

\* main calls accept_and_stream, which binds the listener:
\* TcpListener::bind(..).await.with_context(..)?
Bind ==
  /\ SessionAwaited(pc)
  /\ running
  /\ sid' = sid + 1
  /\ active' = active \cup {sid + 1}
  /\ IF sid + 1 <= Len(conns) /\ conns[sid + 1].kind = "bind_error"
     THEN /\ pc' = "returned"
          /\ result' = "io_error"
          /\ log' = log \o <<[ev |-> "call", at |-> "", got |-> 0,
                              sid |-> sid + 1],
                             [ev |-> "error", at |-> "bind", got |-> 0,
                              sid |-> sid + 1]>>
     ELSE /\ pc' = "listening"
          /\ result' = "none"
          /\ log' = Append(log, [ev |-> "call", at |-> "", got |-> 0,
                                 sid |-> sid + 1])
  /\ UNCHANGED <<mode, running, rotation, net, pos, buf, queue, hist, conns,
                 truncs, decoder, aside>>

\* accept_and_stream from listener.accept() up to `match mode`: a peer
\* connects, a new BufReader and a new decoder
Accept ==
  /\ pc = "listening"
  /\ sid <= Len(conns)
  /\ pc' = CASE mode = "Auto" -> "peek"
             [] mode = "LengthPrefixed" -> "lp"
             [] mode = "AnnexB" -> "annexb"
  /\ net' = conns[sid].chunks
  /\ pos' = 0
  /\ buf' = <<>>
  /\ decoder' = 0
  /\ truncs' = 0
  /\ log' = Append(log, Event("accept", "", 0))
  /\ UNCHANGED <<mode, running, rotation, result, queue, hist, conns, sid,
                 active, aside>>

\* faulty variant of the length read's error handling: the error is returned
LengthReadFailed_Propagated(how) == "io_error"

\* if reader.read_exact(&mut len_buf).await.is_err() { return Ok(()) }: what
\* read_length_prefixed returns when the read of a length field fails
LengthReadFailed(how) == "ok"

\* async fn read_one_payload(reader, payload_len, decoder, frame_tx, rotation).
\* rest is the connection after the length field, at the offset of its first
\* byte, out what decoder.decode returns if it is called.
read_one_payload(rest, at, payload_len, out) ==
  LET avail   == NetLen(rest)
      payload == NetTake(rest, payload_len)
      entry(read, data) ==
        [at |-> at - 4, len |-> payload_len, read |-> read, payload |-> data]
  IN
  IF SuspiciousLength(payload_len)
  THEN \* warn!("Suspicious payload length"); return Ok(())
       /\ net' = rest
       /\ pos' = at
       /\ frames' = Append(frames, entry(0, <<>>))
       /\ pc' = "lp"
       /\ UNCHANGED <<rotation, result, queue, decoded, ctrl, offers, log,
                      decoder>>
  ELSE IF avail < payload_len
  THEN \* reader.read_exact(&mut buf).await? fails when the connection ends
       \* before payload_len bytes came, and waits while it stays open
       /\ net' = <<>>
       /\ pos' = at + avail
       /\ frames' = Append(frames, entry(avail, NetBytes(rest)))
       /\ pc' = IF Ending = "open" THEN "blocked" ELSE "returned"
       /\ result' = IF Ending = "open" THEN result ELSE "io_error"
       /\ log' = Append(log, Event(Ending, "payload", avail))
       /\ UNCHANGED <<rotation, queue, decoded, ctrl, offers, decoder>>
  ELSE /\ net' = NetDrop(rest, payload_len)
       /\ pos' = at + payload_len
       /\ frames' = Append(frames, entry(payload_len, payload))
       /\ IF IsControl(payload)
          THEN \* handle_control_message(&buf[4..], rotation); return Ok(())
               /\ rotation' = handle_control_message(BDrop(payload, 4), rotation)
               /\ ctrl' = Append(ctrl, [data |-> BDrop(payload, 4), at |-> at,
                                        before |-> rotation,
                                        after |-> rotation'])
               /\ pc' = "lp"
               /\ UNCHANGED <<result, queue, decoded, offers, log, decoder>>
          ELSE IF DecodeNalPanics(payload)
          THEN \* decode_nal_buffer indexes past the slice: the thread panics
               /\ pc' = "panicked"
               /\ UNCHANGED <<rotation, result, queue, decoded, ctrl, offers,
                              log, decoder>>
          ELSE \* decode_nal_buffer: decode, offer the frame, Ok(()) in every case
               LET call == [pkt |-> NormalizedPacket(payload), res |-> out,
                            at |-> at, n |-> payload_len]
                   sent == SendFrames(queue, offers, <<call>>)
               IN  /\ decoded' = Append(decoded, call)
                   /\ decoder' = decoder + 1
                   /\ queue' = sent.queue
                   /\ offers' = sent.offers
                   /\ pc' = "lp"
                   /\ UNCHANGED <<rotation, result, ctrl, log>>

\* faulty variant of process_annexb_with_initial: the peeked bytes are lost
InitialBuffer_Empty(initial) == <<>>

\* process_annexb_with_initial: a new buffer, buf.extend_from_slice(initial)
InitialBuffer(initial) == BCat(<<>>, initial)

\* FramingMode::Auto: read_exact(&mut peek)?, then the Annex-B reader with
\* the peeked bytes, or read_one_payload(first_len) and the length-prefixed
\* reader
AutoDetect ==
  /\ pc = "peek"
  /\ IF NetLen(net) < 4
     THEN \* read_exact(&mut peek).await? fails or, on a connection that
          \* stays open, waits
          /\ net' = <<>>
          /\ pos' = pos + NetLen(net)
          /\ pc' = IF Ending = "open" THEN "blocked" ELSE "returned"
          /\ result' = IF Ending = "open" THEN result ELSE "io_error"
          /\ log' = Append(log, Event(Ending, "peek", NetLen(net)))
          /\ UNCHANGED <<rotation, buf, queue, decoded, ctrl, frames, offers,
                         decoder>>
     ELSE LET peek == NetTake(net, 4)
          IN  IF peek = START_CODE4
              THEN \* process_annexb_with_initial: buf.extend_from_slice(initial)
                   /\ buf' = InitialBuffer(peek)
                   /\ net' = NetDrop(net, 4)
                   /\ pos' = pos + 4
                   /\ pc' = "annexb"
                   /\ UNCHANGED <<rotation, result, queue, decoded, ctrl,
                                  frames, offers, log, decoder>>
              ELSE /\ \E out \in DecRes:
                        read_one_payload(NetDrop(net, 4), pos + 4,
                                         U32FromBe(peek), out)
                   /\ UNCHANGED buf
  /\ UNCHANGED <<mode, running, lastRead, taken, conns, sid, active, truncs,
                 aside>>

\* one iteration of read_length_prefixed's `while running` loop
ReadLengthPrefixed ==
  /\ pc = "lp"
  /\ running
  /\ IF NetLen(net) < 4
     THEN \* read_exact(&mut len_buf) is_err: "Connection closed", return
          \* Ok(()); on a connection that stays open the read waits
          /\ net' = <<>>
          /\ pos' = pos + NetLen(net)
          /\ pc' = IF Ending = "open" THEN "blocked" ELSE "returned"
          /\ result' = IF Ending = "open" THEN result
                        ELSE LengthReadFailed(Ending)
          /\ log' = Append(log, Event(Ending, "length", NetLen(net)))
          /\ UNCHANGED <<rotation, queue, decoded, ctrl, frames, offers,
                         decoder>>
     ELSE \E out \in DecRes:
            read_one_payload(NetDrop(net, 4), pos + 4,
                             U32FromBe(NetTake(net, 4)), out)
  /\ UNCHANGED <<mode, running, buf, lastRead, taken, conns, sid, active,
                 truncs, aside>>

\* faulty variant of the Annex-B reader: a unit whose body starts with CTRL
\* is handled as a control message, as a length-prefixed payload is
RotationAfterUnits_Control(rot, calls) ==
  IF calls = <<>> THEN rot
  ELSE LET pkt  == calls[Len(calls)].pkt
           body == BDrop(pkt, IF BTake(pkt, 3) = START_CODE3 THEN 3 ELSE 4)
       IN  IF IsControl(body)
           THEN handle_control_message(BDrop(body, 4), rot)
           ELSE rot

\* The shared rotation after the units of one read were extracted:
\* read_annexb, process_annexb_with_initial and extract_and_decode_nals are
\* not given the rotation, and a unit goes to decoder.decode only.
RotationAfterUnits(rot, calls) == rot

\* one iteration of the `while running` loop of read_annexb and of
\* process_annexb_with_initial: read, append, extract_and_decode_nals
ReadAnnexB ==
  /\ pc = "annexb"
  /\ running
  /\ IF net = <<>>
     THEN \* n == 0: "Connection closed", return Ok(()); reader.read(..)?
          \* returns the error of a connection that failed, and waits on
          \* one that stays open
          /\ pc' = CASE Ending = "open" -> "blocked" [] OTHER -> "returned"
          /\ result' = CASE Ending = "eof" -> "ok"
                          [] Ending = "reset" -> "io_error"
                          [] OTHER -> result
          /\ log' = Append(log, Event(Ending, "annexb", 0))
          /\ UNCHANGED <<net, pos, buf, queue, decoded, offers, lastRead,
                         truncs, decoder, rotation>>
     ELSE LET n     == IF BLen(Head(net)) < TMP_SIZE
                       THEN BLen(Head(net)) ELSE TMP_SIZE
              chunk == BTake(Head(net), n)
              buf1  == BCat(buf, chunk)
          IN  \E outs \in [1..NalCount(buf1) -> DecRes]:
                LET r    == extract_and_decode_nals(buf1, pos + n - BLen(buf1),
                                                    outs)
                    sent == SendFrames(queue, offers, r.calls)
                IN  /\ net' = NetDrop(net, n)
                    /\ pos' = pos + n
                    /\ decoded' = decoded \o r.calls
                    /\ decoder' = decoder + Len(r.calls)
                    /\ rotation' = RotationAfterUnits(rotation, r.calls)
                    /\ queue' = sent.queue
                    /\ offers' = sent.offers
                    /\ buf' = r.buf
                    /\ truncs' = IF r.buf # r.rest THEN truncs + 1 ELSE truncs
                    /\ lastRead' = [before |-> buf, chunk |-> chunk,
                                    calls |-> r.calls, after |-> r.buf,
                                    err |-> r.err, rest |-> r.rest]
                    /\ IF r.err
                       THEN pc' = "returned" /\ result' = "decode_error"
                       ELSE pc' = "annexb" /\ UNCHANGED result
                    /\ UNCHANGED log
  /\ UNCHANGED <<mode, running, ctrl, frames, taken, conns, sid, active,
                 aside>>

\* either reader's loop finds running false and returns Ok(())
ReaderStops ==
  /\ pc \in {"lp", "annexb"}
  /\ ~running
  /\ pc' = "returned"
  /\ result' = "ok"
  /\ UNCHANGED <<mode, running, rotation, net, pos, buf, queue, hist, sess,
                 truncs, decoder, aside>>

\* main, Ok(()) => info!("Client disconnected, waiting for new connection...")
SessionOk ==
  /\ pc = "returned"
  /\ result = "ok"
  /\ pc' = "accept"
  /\ active' = active \ {sid}
  /\ log' = Append(log, Event("ok", "", 0))
  /\ UNCHANGED <<mode, running, rotation, net, pos, result, buf, queue, hist,
                 conns, sid, truncs, decoder, aside>>

\* main, Err(e) => error!(..), then tokio::time::sleep(1 s) begins
SessionErr ==
  /\ pc = "returned"
  /\ result \in {"io_error", "decode_error"}
  /\ pc' = "backoff"
  /\ active' = active \ {sid}
  /\ log' = Append(log, Event("err", "", 0))
  /\ UNCHANGED <<mode, running, rotation, net, pos, result, buf, queue, hist,
                 conns, sid, truncs, decoder, aside>>

\* the 1 s sleep is over: back to the top of main's loop
BackoffDone ==
  /\ pc = "backoff"
  /\ pc' = "accept"
  /\ log' = Append(log, Event("slept", "", 0))
  /\ UNCHANGED <<mode, running, rotation, net, pos, result, buf, queue, hist,
                 conns, sid, active, truncs, decoder, aside>>

\* find_start_code is called: `if buf.len() < offset + 3 { return None }`
ScanCall ==
  /\ scan.st = "call"
  /\ scan' = IF BLen(scan.buf) < scan.offset + 3
             THEN [scan EXCEPT !.st = "done", !.ret = NONE]
             ELSE [scan EXCEPT !.st = "loop", !.i = scan.offset]
  /\ UNCHANGED <<mode, running, rotation, net, pos, pc, result, buf, queue,
                 hist, sess, truncs, decoder, pcD, disc, conv, ext>>

\* find_start_code: the test of `for i in offset..buf.len() - 2` and one
\* iteration of its body
ScanStep ==
  /\ scan.st = "loop"
  /\ LET it == ScanIter(scan.buf, scan.i)
         hi == IF it.hi > scan.hi THEN it.hi ELSE scan.hi
     IN  scan' = IF scan.i >= BLen(scan.buf) - 2
                 THEN [scan EXCEPT !.st = "done", !.ret = NONE]
                 ELSE IF it.hi >= BLen(scan.buf)
                 THEN [scan EXCEPT !.st = "panic", !.hi = hi]
                 ELSE IF it.hit
                 THEN [scan EXCEPT !.st = "done", !.ret = scan.i, !.hi = hi]
                 ELSE [scan EXCEPT !.i = scan.i + 1, !.hi = hi]
  /\ UNCHANGED <<mode, running, rotation, net, pos, pc, result, buf, queue,
                 hist, sess, truncs, decoder, pcD, disc, conv, ext>>

\* yuv420_to_rgba is called: `let mut rgba = vec![255u8; w * h * 4]`; with
\* no pixel to visit both loops end at once and rgba is returned
ConvCall ==
  /\ conv.st = "call"
  /\ conv' = [conv EXCEPT
               !.rgba = [i \in 1..(conv.w * conv.h * 4) |-> 255],
               !.st   = IF conv.w = 0 \/ conv.h = 0 THEN "done" ELSE "loop"]
  /\ UNCHANGED <<mode, running, rotation, net, pos, pc, result, buf, queue,
                 hist, sess, truncs, decoder, pcD, scan, disc, ext>>

\* yuv420_to_rgba: one pixel of `for row in 0..h { for col in 0..w {..} }`,
\* then on to the next column, the next row, or `rgba` returned
ConvStep ==
  /\ conv.st = "loop"
  /\ LET px   == ConvPixel(conv)
         last == conv.col + 1 = conv.w
     IN  conv' = IF px.panic
                 THEN [conv EXCEPT !.st = "panicked"]
                 ELSE [conv EXCEPT
                         !.rgba    = px.rgba,
                         !.skipped = IF px.skipped THEN @ + 1 ELSE @,
                         !.col     = IF last THEN 0 ELSE @ + 1,
                         !.row     = IF last THEN @ + 1 ELSE @,
                         !.st      = IF last /\ conv.row + 1 = conv.h
                                     THEN "done" ELSE "loop"]
  /\ UNCHANGED <<mode, running, rotation, net, pos, pc, result, buf, queue,
                 hist, sess, truncs, decoder, pcD, scan, disc, ext>>

\* extract_and_decode_nals: one iteration of its `loop`.  Without a start
\* code, or without a second one, it breaks, and the function cuts the
\* buffer if it is over 4 MiB and returns Ok(()); otherwise it decodes
\* buf[start..end], returns the error if decoder.decode failed, and else
\* drains the buffer and loops.
ExtractStep ==
  /\ ext.st = "loop"
  /\ LET start == find_start_code(ext.buf, 0)
         end   == IF start = NONE THEN NONE
                  ELSE find_start_code(ext.buf, SecondSearchFrom(start))
     IN  IF start = NONE \/ end = NONE
         THEN ext' = [ext EXCEPT !.st = "done", !.buf = TruncateBuffer(ext.buf)]
         ELSE \E res \in DecRes:
                ext' = IF res = "err"
                       THEN [ext EXCEPT !.st = "failed",
                                        !.outs = Append(@, res)]
                       ELSE [ext EXCEPT !.buf = Drained(ext.buf, start, end),
                                        !.outs = Append(@, res)]
  /\ UNCHANGED <<mode, running, rotation, net, pos, pc, result, buf, queue,
                 hist, sess, truncs, decoder, pcD, scan, disc, conv>>

\* renderer, WindowEvent::CloseRequested: running.store(false)
CloseRequested ==
  /\ running
  /\ running' = FALSE
  /\ UNCHANGED <<mode, rotation, net, pos, pc, result, buf, queue, hist, sess,
                 truncs, decoder, aside>>

\* renderer, poll_frames: one frame_rx.try_recv() that returns a frame
TryRecv ==
  /\ queue # <<>>
  /\ taken' = Append(taken, Head(queue))
  /\ queue' = Tail(queue)
  /\ UNCHANGED <<mode, running, rotation, net, pos, pc, result, buf,
                 decoded, ctrl, frames, lastRead, offers, sess, truncs,
                 decoder, aside>>

\* run_discovery_service: UdpSocket::bind(..)?, which succeeds or fails
DiscoveryBind ==
  /\ pcD = "bind"
  /\ pcD' \in {"check", "failed"}
  /\ UNCHANGED <<mode, running, rotation, net, pos, pc, result, buf, queue,
                 hist, sess, truncs, decoder, scan, disc, conv, ext>>

\* run_discovery_service: `while running.load(..)`, then "Discovery service
\* stopped"
DiscoveryCheck ==
  /\ pcD = "check"
  /\ pcD' = IF running THEN "recv" ELSE "stopped"
  /\ UNCHANGED <<mode, running, rotation, net, pos, pc, result, buf, queue,
                 hist, sess, truncs, decoder, scan, disc, conv, ext>>

\* faulty variant of the probe test: a datagram that starts with the probe
IsProbe_Prefix(message) ==
  BTake(message, BLen(DISCOVERY_MESSAGE)) = DISCOVERY_MESSAGE

\* `message == DISCOVERY_MESSAGE`
IsProbe(message) == message = DISCOVERY_MESSAGE

\* faulty variant of the receive: socket.recv_from(..).await with no timeout
RecvTimesOut_Never == FALSE

\* tokio::time::timeout(1 s, ..) around the receive: Err(_) after 1 s
RecvTimesOut == TRUE

\* run_discovery_service: timeout(1 s, socket.recv_from(&mut buf)) returns.
\* Ok(Ok((len, src))): the next datagram, of which buf holds the first 256
\* bytes at most; a probe is answered by socket.send_to(response, src),
\* which sends or fails (a warning either way, no other effect).  Err(_),
\* the timeout, and Ok(Err(e)), a receive error, only go back to the loop's
\* test.
DiscoveryRecv ==
  /\ pcD = "recv"
  /\ pcD' = "check"
  /\ \/ /\ dgrams # <<>>
        /\ LET d       == Head(dgrams)
               message == BTake(d.bytes, UDP_BUF_SIZE)
           IN  \E sent \in BOOLEAN:
                 udp' = Append(udp,
                          [msg   |-> d.bytes,
                           src   |-> d.src,
                           reply |-> IF IsProbe(message) /\ sent
                                     THEN <<[to    |-> d.src,
                                             bytes |-> Response(port)]>>
                                     ELSE <<>>])
        /\ dgrams' = Tail(dgrams)
     \/ /\ RecvTimesOut
        /\ UNCHANGED <<dgrams, udp>>
  /\ UNCHANGED <<mode, running, rotation, net, pos, pc, result, buf, queue,
                 hist, sess, truncs, decoder, scan, port, conv, ext>>

\* ------------------------------------------------------------ inputs

\* the most chunks a connection delivers
MaxChunks == 2

\* the most frames the decoder side offers in the hand-off queue's own
\* specification
MaxOffers == 7

\* the longest buffer handed to find_start_code on its own
MaxScanLen == 5

\* n.to_be_bytes() of a u32: how the peer writes a length field
U32ToBe(n) ==
  B(<<n \div 16777216, (n \div 65536) % 256, (n \div 256) % 256, n % 256>>)

\* a well-formed length-prefixed frame: [4-byte BE length][payload]
LpFrame(payload) == BCat(U32ToBe(BLen(payload)), payload)

\* payloads of length-prefixed frames
PayloadBare     == B(<<101, 65>>)             \* a NAL body without start code
PayloadStart3   == B(<<0, 0, 1, 101>>)        \* a NAL with its 3-byte start code
PayloadOnlySC4  == START_CODE4                \* nothing but 00 00 00 01
PayloadMax      == BCat(B(<<101>>), Fill(85, MAX_NAL_SIZE - 1))  \* 16 MiB
PayloadRot90    == BCat(CTRL_MAGIC, B(<<1, 0, 90>>))
PayloadRot258   == BCat(CTRL_MAGIC, B(<<1, 1, 2, 127>>))  \* one byte extra
PayloadRotShort == BCat(CTRL_MAGIC, B(<<1, 0>>))
PayloadCtrlOnly == CTRL_MAGIC
PayloadUnknown  == BCat(CTRL_MAGIC, B(<<2, 0, 90>>))

\* a length field of 0 (no payload follows)
ZeroLength == U32ToBe(0)

\* A frame whose length field is 16 MiB + 1, with all of its payload: the
\* payload's bytes are 00 00 00 02 65 41, then 00 FF FF F7 and filler.
Oversized ==
  BCat(U32ToBe(MAX_NAL_SIZE + 1),
       BCat(LpFrame(PayloadBare), LpFrame(Fill(85, MAX_NAL_SIZE + 1 - 10))))

\* a rotation message and a truncated one, arriving together
RotThenShort == BCat(LpFrame(PayloadRot90), LpFrame(PayloadRotShort))

\* what a length-prefixed peer sends, one arrival each
LpChunks ==
  { LpFrame(PayloadBare), LpFrame(PayloadStart3), LpFrame(PayloadOnlySC4),
    LpFrame(PayloadMax), LpFrame(PayloadRot90), LpFrame(PayloadRot258),
    LpFrame(PayloadRotShort), LpFrame(PayloadCtrlOnly),
    LpFrame(PayloadUnknown), ZeroLength, Oversized, RotThenShort }

\* last arrivals of a peer that closes in the middle of a frame: half a
\* length field, or a length field of 5 with one payload byte
LpTails == { B(<<0, 0>>), B(<<0, 0, 0, 5, 101>>) }

\* Annex-B units: a start code and a body that holds no start code
NalUnits == { BCat(START_CODE4, B(<<101, 65>>)), BCat(START_CODE3, B(<<65>>)) }

\* what arrives in one read of an Annex-B connection: one unit, two units
\* back to back, the bytes CTRL 01 00 5A inside a unit, a unit cut in the
\* middle of the next start code, and the rest of that start code
AnnexBChunks ==
  NalUnits
    \cup { BCat(a, b) : a, b \in NalUnits }
    \cup { BCat(START_CODE3, PayloadRot90),
           B(<<0, 0, 1, 65, 0, 0>>), B(<<1, 103>>) }

\* arrivals that take the Annex-B buffer to its ceiling: filler without any
\* start code, more than 4 MiB of it or exactly 4 MiB, a unit, 4 MiB of
\* filler with a start code and a byte after it, and two units back to back
CeilingChunks ==
  { Fill(85, BUF_CEILING + TMP_SIZE), Fill(85, BUF_CEILING),
    BCat(START_CODE4, B(<<101, 65>>)),
    BCat(Fill(85, BUF_CEILING), B(<<0, 0, 1, 103>>)),
    BCat(B(<<0, 0, 1, 65>>), BCat(START_CODE4, B(<<101, 65>>))) }

\* what a call of accept_and_stream meets: a peer's connection, the bytes it
\* sends and how it ends
Conn(chunks, ending) == [kind |-> "conn", chunks |-> chunks, ending |-> ending]

\* or a listener that cannot be bound
BindError == [kind |-> "bind_error", chunks |-> <<>>, ending |-> "eof"]

\* the most calls of accept_and_stream that meet a peer or a bind error
MaxSessions == 2

\* a rotation message and a bare NAL body, arriving together
RotThenBare == BCat(LpFrame(PayloadRot90), LpFrame(PayloadBare))

\* two Annex-B units, arriving together
TwoUnits == BCat(BCat(START_CODE4, B(<<101, 65>>)), BCat(START_CODE3, B(<<65>>)))

\* two Annex-B units of which the first holds the bytes of a rotation
\* message, CTRL 01 00 5A, as its body
CtrlUnits ==
  BCat(BCat(START_CODE4, PayloadRot90), BCat(START_CODE3, B(<<65>>)))

\* what successive calls of accept_and_stream meet: a port that cannot be
\* bound, a length-prefixed peer, an Annex-B peer, an Annex-B peer whose
\* stream holds the bytes of a rotation message, a peer that closes after
\* 2 bytes, a connection that fails after 2 bytes, and a peer that sends a
\* rotation message and then keeps the connection open
SessionConns ==
  { BindError,
    Conn(<<RotThenBare>>, "eof"),
    Conn(<<TwoUnits>>, "eof"),
    Conn(<<CtrlUnits>>, "eof"),
    Conn(<<B(<<0, 0>>)>>, "eof"),
    Conn(<<B(<<0, 0>>)>>, "reset"),
    Conn(<<LpFrame(PayloadRot90)>>, "open") }

\* all sequences of 1..n elements of S
SeqsUpTo(S, n) == UNION { [1..k -> S] : k \in 1..n }

\* connections of a length-prefixed peer
LpStreams ==
  LET whole == {<<>>} \cup SeqsUpTo(LpChunks, MaxChunks)
  IN  whole \cup { Append(s, t) : s \in {<<>>} \cup SeqsUpTo(LpChunks, 1),
                                  t \in LpTails }

\* connections of an Annex-B peer
AnnexBStreams == {<<>>} \cup SeqsUpTo(AnnexBChunks, MaxChunks)

\* connections that fill the Annex-B buffer
CeilingStreams == SeqsUpTo(CeilingChunks, MaxChunks)

\* Auto takes a connection for Annex-B when it starts with 00 00 00 01
StartsAnnexB(s) == s # <<>> /\ BTake(s[1], 4) = START_CODE4

\* configurations and connections: the length-prefixed reader, forced or
\* chosen by Auto
LpScenarios == {"LengthPrefixed", "Auto"} \X LpStreams

\* configurations and connections: the Annex-B reader, forced or chosen by Auto
AnnexBScenarios ==
  ({"AnnexB"} \X AnnexBStreams)
    \cup ({"Auto"} \X { s \in AnnexBStreams : StartsAnnexB(s) })

\* configurations and connections: the Annex-B reader at its buffer ceiling
CeilingScenarios ==
  ({"AnnexB"} \X CeilingStreams)
    \cup ({"Auto"} \X { s \in CeilingStreams : StartsAnnexB(s) })

\* a datagram at the discovery socket: its bytes and its source address
Datagram(bytes, src) == [bytes |-> bytes, src |-> src]

\* how many datagrams arrive at most
MaxDatagrams == 2

\* datagram contents: the probe; the probe followed by a line feed, by a
\* NUL, by enough bytes to fill the receive buffer and more; the probe less
\* its last byte; the probe in lower case; the reply's own text; nothing
DatagramBytes ==
  { DISCOVERY_MESSAGE,
    BCat(DISCOVERY_MESSAGE, B(<<10>>)),
    BCat(DISCOVERY_MESSAGE, B(<<0>>)),
    BCat(DISCOVERY_MESSAGE, Fill(0, UDP_BUF_SIZE)),
    BTake(DISCOVERY_MESSAGE, BLen(DISCOVERY_MESSAGE) - 1),
    B(<<99, 97, 109, 115, 116, 114, 101, 97, 109, 95, 100, 105, 115, 99, 111,
        118, 101, 114>>),
    Response(DEFAULT_PORT),
    <<>> }

\* the peers that send datagrams
Sources == {"a", "b"}

\* values of --port: the default, the least and the greatest u16, and
\* numbers of 2, 3 and 4 digits of which one ends in 0
Ports == {DEFAULT_PORT, 0, 65535, 80, 443, 1000}

\* the greatest width, height and stride of a frame given to the converter
MaxDim == 2

\* a plane of n bytes whose i-th byte is (first + i * step) mod 256
Plane(n, first, step) == [i \in 1..n |-> (first + i * step) % 256]

\* plane lengths: none, one byte, one row, a whole MaxDim x MaxDim plane
PlaneLens == {0, 1, MaxDim, MaxDim * MaxDim}

\* a call yuv420_to_rgba(y_data, u_data, v_data, ys, us, vs, w, h), about
\* to be made
ConvOf(ny, nu, nv, ys, us, vs, w, h) ==
  [st |-> "call",
   y_data |-> Plane(ny, 0, 85), u_data |-> Plane(nu, 20, 110),
   v_data |-> Plane(nv, 128, 127),
   y_stride |-> ys, u_stride |-> us, v_stride |-> vs, w |-> w, h |-> h,
   row |-> 0, col |-> 0, skipped |-> 0, rgba |-> <<>>]

\* how many pieces a buffer given to the extraction loop is made of
MaxPieces == 3

\* the pieces: the two start codes, a body byte, one and two zero bytes
Pieces == { START_CODE3, START_CODE4, B(<<65>>), B(<<0>>), B(<<0, 0>>) }

RECURSIVE Joined(_)
\* the pieces of a sequence, one after the other
Joined(ps) == IF ps = <<>> THEN <<>> ELSE BCat(Head(ps), Joined(Tail(ps)))

\* buffers for the extraction loop: up to MaxPieces pieces
ExtractBufs == { Joined(ps) : ps \in {<<>>} \cup SeqsUpTo(Pieces, MaxPieces) }

\* a call extract_and_decode_nals(b, ..), at the top of its loop
ExtOf(b) == [st |-> "loop", buf0 |-> b, buf |-> b, outs |-> <<>>]

\* ------------------------------------------------------------ specifications

\* no call of find_start_code under way
NoScan == [st |-> "idle", buf |-> <<>>, offset |-> 0, i |-> 0, hi |-> -1,
           ret |-> -1]

NoRead == [before |-> <<>>, chunk |-> <<>>, calls |-> <<>>, after |-> <<>>,
           err |-> FALSE, rest |-> <<>>]

\* no call of extract_and_decode_nals under way
NoExt == [st |-> "idle", buf0 |-> <<>>, buf |-> <<>>, outs |-> <<>>]

\* no call of yuv420_to_rgba under way
NoConv == [st |-> "idle", y_data |-> <<>>, u_data |-> <<>>, v_data |-> <<>>,
           y_stride |-> 0, u_stride |-> 0, v_stride |-> 0, w |-> 0, h |-> 0,
           row |-> 0, col |-> 0, skipped |-> 0, rgba |-> <<>>]

\* the default port, no datagram ever sent to the discovery socket, and
\* neither function under test called
Quiet ==
  /\ port = DEFAULT_PORT
  /\ dgrams = <<>>
  /\ conv = NoConv
  /\ ext = NoExt

\* main before the accept loop starts: running true, rotation 0, an empty
\* channel; nothing read yet
InitMain ==
  /\ net = <<>>
  /\ sid = 0
  /\ active = {}
  /\ log = <<>>
  /\ pcD = "bind"
  /\ truncs = 0
  /\ decoder = 0
  /\ running = TRUE
  /\ rotation = 0
  /\ pos = 0
  /\ pc = "accept"
  /\ result = "none"
  /\ buf = <<>>
  /\ queue = <<>>
  /\ decoded = <<>>
  /\ ctrl = <<>>
  /\ frames = <<>>
  /\ lastRead = NoRead
  /\ offers = <<>>
  /\ taken = <<>>
  /\ udp = <<>>

\* the configuration and the one connection a peer makes, which it closes
\* after its last byte
InitWith(scenarios) ==
  /\ \E sc \in scenarios: mode = sc[1] /\ conns = <<Conn(sc[2], "eof")>>
  /\ scan = NoScan
  /\ Quiet
  /\ InitMain

Init == InitWith(LpScenarios \cup AnnexBScenarios)

Next ==
  \/ SessionLoopExit
  \/ Bind
  \/ Accept
  \/ AutoDetect
  \/ ReadLengthPrefixed
  \/ ReadAnnexB
  \/ ReaderStops
  \/ SessionOk
  \/ SessionErr
  \/ BackoffDone
  \/ CloseRequested
  \/ TryRecv
  \/ DiscoveryBind
  \/ DiscoveryCheck
  \/ DiscoveryRecv

\* the whole program: the network task and the renderer
Spec == Init /\ [][Next]_vars

InitLP == InitWith(LpScenarios)

NextLP ==
  \/ SessionLoopExit
  \/ Bind
  \/ Accept
  \/ AutoDetect
  \/ ReadLengthPrefixed
  \/ ReaderStops
  \/ CloseRequested

\* the network task on length-prefixed connections
SpecLP == InitLP /\ [][NextLP]_vars

InitAnnexB == InitWith(AnnexBScenarios)

NextAnnexB ==
  \/ SessionLoopExit
  \/ Bind
  \/ Accept
  \/ AutoDetect
  \/ ReadAnnexB
  \/ ReaderStops
  \/ CloseRequested

\* the network task on Annex-B connections
SpecAnnexB == InitAnnexB /\ [][NextAnnexB]_vars

InitCeiling == InitWith(CeilingScenarios)

\* the network task on Annex-B connections that reach the buffer's ceiling
SpecCeiling == InitCeiling /\ [][NextAnnexB]_vars

\* a session in which the decoder produces frames: the hand-off queue alone
InitQueue == InitWith({<<"LengthPrefixed", <<>>>>})

\* decode_nal_buffer / extract_and_decode_nals after Ok(Some(frame)):
\* `let _ = frame_tx.try_send(frame)`
OfferFrame ==
  /\ Len(offers) < MaxOffers
  /\ LET sent == SendFrames(queue, offers, <<[res |-> "frame"]>>)
     IN  queue' = sent.queue /\ offers' = sent.offers
  /\ UNCHANGED <<mode, running, rotation, net, pos, pc, result, buf,
                 decoded, ctrl, frames, lastRead, taken, sess, truncs,
                 decoder, aside>>

NextQueue ==
  \/ OfferFrame
  \/ TryRecv

\* the two ends of the hand-off queue
SpecQueue == InitQueue /\ [][NextQueue]_vars

\* buffers for find_start_code: every string of up to MaxScanLen bytes
\* 0x00, 0x01, 0x02
ScanBufs ==
  { B(q) : q \in UNION { [1..n -> {0, 1, 2}] : n \in 0..MaxScanLen } }

\* a call find_start_code(b, o), about to be made
ScanOf(b, o) == [st |-> "call", buf |-> b, offset |-> o, i |-> 0, hi |-> -1,
                 ret |-> NONE]

\* every configuration, and up to MaxSessions connections or bind errors
InitSession ==
  /\ mode \in {"Auto", "LengthPrefixed", "AnnexB"}
  /\ conns \in {<<>>} \cup SeqsUpTo(SessionConns, MaxSessions)
  /\ scan = NoScan
  /\ Quiet
  /\ InitMain

NextSession ==
  \/ SessionLoopExit
  \/ Bind
  \/ Accept
  \/ AutoDetect
  \/ ReadLengthPrefixed
  \/ ReadAnnexB
  \/ ReaderStops
  \/ SessionOk
  \/ SessionErr
  \/ BackoffDone
  \/ CloseRequested

\* the network task over several sessions: main's accept loop
SpecSession == InitSession /\ [][NextSession]_vars

InitAuto ==
  InitWith({"Auto"} \X (LpStreams \cup { s \in AnnexBStreams : StartsAnnexB(s) }))

NextAuto ==
  \/ SessionLoopExit
  \/ Bind
  \/ Accept
  \/ AutoDetect
  \/ ReadLengthPrefixed
  \/ ReadAnnexB
  \/ ReaderStops
  \/ CloseRequested

\* FramingMode::Auto on connections of either framing
SpecAuto == InitAuto /\ [][NextAuto]_vars

\* every configuration; no peer at all, one that cannot be served because
\* the port cannot be bound, one that sends 2 bytes and closes, one that
\* sends 2 bytes or nothing and keeps the connection open
InitLive ==
  /\ mode \in {"Auto", "LengthPrefixed", "AnnexB"}
  /\ conns \in { <<>>, <<BindError>>, <<Conn(<<B(<<0, 0>>)>>, "eof")>>,
                 <<Conn(<<B(<<0, 0>>)>>, "open")>>, <<Conn(<<>>, "open")>> }
  /\ scan = NoScan
  /\ conv = NoConv
  /\ ext = NoExt
  /\ port = DEFAULT_PORT
  /\ dgrams \in {<<>>, <<Datagram(DISCOVERY_MESSAGE, "a")>>}
  /\ InitMain

\* the steps of the network task (main's loop and the session it awaits)
NetworkTask ==
  \/ SessionLoopExit
  \/ Bind
  \/ Accept
  \/ AutoDetect
  \/ ReadLengthPrefixed
  \/ ReadAnnexB
  \/ ReaderStops
  \/ SessionOk
  \/ SessionErr
  \/ BackoffDone

\* the steps of the discovery task
DiscoveryTask ==
  \/ DiscoveryBind
  \/ DiscoveryCheck
  \/ DiscoveryRecv

NextLive ==
  \/ NetworkTask
  \/ DiscoveryTask
  \/ CloseRequested

\* The two tasks of the runtime and the window.  The runtime runs a task
\* that can go on (a finished read, an expired sleep or timeout); the window
\* may or may not ever be closed.
SpecLive ==
  /\ InitLive
  /\ [][NextLive]_vars
  /\ WF_vars(NetworkTask)
  /\ WF_vars(DiscoveryTask)

InitScan ==
  /\ InitMain
  /\ Quiet
  /\ mode = "AnnexB"
  /\ conns = <<>>
  /\ \E b \in ScanBufs, o \in 0..(MaxScanLen + 1): scan = ScanOf(b, o)

NextScan ==
  \/ ScanCall
  \/ ScanStep

\* find_start_code on its own, over every small buffer and offset
SpecScan == InitScan /\ [][NextScan]_vars

\* every port, and up to MaxDatagrams datagrams of every content from
\* every source
InitDiscovery ==
  /\ InitMain
  /\ mode = "Auto"
  /\ conns = <<>>
  /\ scan = NoScan
  /\ conv = NoConv
  /\ ext = NoExt
  /\ port \in Ports
  /\ dgrams \in {<<>>} \cup SeqsUpTo({ Datagram(b, a) : b \in DatagramBytes,
                                                           a \in Sources },
                                      MaxDatagrams)

NextDiscovery ==
  \/ DiscoveryBind
  \/ DiscoveryCheck
  \/ DiscoveryRecv
  \/ CloseRequested

\* the discovery responder on its own, until the window is closed
SpecDiscovery == InitDiscovery /\ [][NextDiscovery]_vars

InitConv ==
  /\ InitMain
  /\ mode = "Auto"
  /\ conns = <<>>
  /\ scan = NoScan
  /\ ext = NoExt
  /\ port = DEFAULT_PORT
  /\ dgrams = <<>>
  /\ \E ny, nu, nv \in PlaneLens:
       \E ys, us, vs, w, h \in 0..MaxDim:
         conv = ConvOf(ny, nu, nv, ys, us, vs, w, h)

NextConv ==
  \/ ConvCall
  \/ ConvStep

\* yuv420_to_rgba on its own, over every small frame geometry
SpecConv == InitConv /\ [][NextConv]_vars

InitExtract ==
  /\ InitMain
  /\ mode = "AnnexB"
  /\ conns = <<>>
  /\ scan = NoScan
  /\ conv = NoConv
  /\ port = DEFAULT_PORT
  /\ dgrams = <<>>
  /\ \E b \in ExtractBufs: ext = ExtOf(b)

NextExtract == ExtractStep

\* The loop of extract_and_decode_nals on its own, over every small
\* buffer.  The function is synchronous: once called it runs on until it
\* returns or its loop goes on for ever.
SpecExtract == InitExtract /\ [][NextExtract]_vars /\ WF_vars(NextExtract)

\* ------------------------------------------------------------ properties

\* one read that delivers exactly two units back to back
TwoUnitChunks == { BCat(a, b) : a, b \in NalUnits }

\* After the length field frames[j] the session goes on: the next length
\* field read, if any, starts right after the bytes this one consumed, and
\* if none was read yet the session has neither failed nor panicked.
GoesOnAfter(j) ==
  /\ j < Len(frames) => frames[j + 1].at = frames[j].at + 4 + frames[j].read
  /\ j = Len(frames) => result \in {"none", "ok"} /\ pc # "panicked"

\* the calls (of decoded or of ctrl) made for the payload of frames[j]
CallsFor(calls, j) == { k \in DOMAIN calls : calls[k].at = frames[j].at + 4 }

\* C1, as stated: a read that delivers exactly two back-to-back units into an
\* empty Annex-B buffer (no decode failing) makes two decode calls, of the
\* first unit and then of the second, and leaves the buffer empty.
C1_TwoDecodesBufferEmpty ==
  \A a, b \in NalUnits:
    (lastRead.before = <<>> /\ lastRead.chunk = BCat(a, b) /\ ~lastRead.err)
      => /\ Len(lastRead.calls) = 2
         /\ lastRead.calls[1].pkt = a
         /\ lastRead.calls[2].pkt = b
         /\ lastRead.after = <<>>

\* C1, amended: such a read makes exactly one decode call, of the first
\* unit; unless that call fails, the second unit, start code and body, is
\* what the buffer holds afterwards.
C1_OneDecodeSecondUnitKept ==
  \A a, b \in NalUnits:
    (lastRead.before = <<>> /\ lastRead.chunk = BCat(a, b))
      => /\ Len(lastRead.calls) = 1
         /\ lastRead.calls[1].pkt = a
         /\ lastRead.calls[1].at = pos - BLen(lastRead.chunk)
         /\ ~lastRead.err => lastRead.after = b /\ buf = b

C1_Witness ==
  /\ lastRead.before = <<>>
  /\ lastRead.chunk \in TwoUnitChunks
  /\ ~lastRead.err
  /\ Len(decoded) = 1
  /\ pc = "annexb"

\* C2: accept_and_stream never returns an error because decoder.decode
\* failed on a unit, in either framing mode.
C2_DecodeErrorNeverEndsSession == result # "decode_error"

\* C3, as stated: no byte of the payload that follows a length field greater
\* than 16 MiB is ever handed to the decoder or to handle_control_message.
C3_OversizedPayloadNeverParsed ==
  \A i \in DOMAIN frames:
    frames[i].len > 16 * 1024 * 1024
      => LET lo == frames[i].at + 4
             hi == lo + frames[i].len
         IN  /\ \A k \in DOMAIN decoded:
                  ~(decoded[k].at < hi /\ decoded[k].at + decoded[k].n > lo)
             /\ \A k \in DOMAIN ctrl:
                  ~(ctrl[k].at < hi /\ ctrl[k].at + 4 + BLen(ctrl[k].data) > lo)

\* C3, amended: for a length field greater than 16 MiB the reader reads no
\* payload and calls neither the decoder nor handle_control_message for it;
\* it returns no error, and the 4 bytes right after the length field are
\* read as the next length field.
C3_OversizedLengthReadsNothing ==
  \A i \in DOMAIN frames:
    frames[i].len > 16 * 1024 * 1024
      => /\ frames[i].read = 0
         /\ CallsFor(decoded, i) = {}
         /\ CallsFor(ctrl, i) = {}
         /\ GoesOnAfter(i)
         /\ i < Len(frames) => frames[i + 1].at = frames[i].at + 4

C3_Witness ==
  \E i \in DOMAIN frames:
    /\ frames[i].len = 16 * 1024 * 1024 + 1
    /\ i < Len(frames)
    /\ \E k \in DOMAIN decoded: decoded[k].at > frames[i].at

\* C4: a length field of 0 makes the reader read no payload, call neither
\* the decoder nor handle_control_message, and return no error; the 4 bytes
\* right after it are read as the next length field.
C4_ZeroLengthSkipped ==
  \A i \in DOMAIN frames:
    frames[i].len = 0
      => /\ frames[i].read = 0
         /\ CallsFor(decoded, i) = {}
         /\ CallsFor(ctrl, i) = {}
         /\ GoesOnAfter(i)
         /\ i < Len(frames) => frames[i + 1].at = frames[i].at + 4

C4_Witness ==
  \E i \in DOMAIN frames:
    /\ frames[i].len = 0
    /\ i < Len(frames)
    /\ frames[i + 1].len # 0

\* C5: after a length field L with 1 <= L <= 16 MiB the reader reads exactly
\* L payload bytes (unless the peer closes before sending them, which ends
\* the session), and the next length field read starts right after them.
C5_ValidLengthConsumesExactly ==
  \A i \in DOMAIN frames:
    (frames[i].len >= 1 /\ frames[i].len <= 16 * 1024 * 1024)
      => /\ \/ /\ frames[i].read = frames[i].len
               /\ BLen(frames[i].payload) = frames[i].len
            \/ /\ i = Len(frames)
               /\ result = "io_error"
               /\ net = <<>>
               /\ frames[i].read < frames[i].len
         /\ i < Len(frames)
              => frames[i + 1].at = frames[i].at + 4 + frames[i].len
         /\ i = Len(frames) /\ pc = "lp"
              => pos = frames[i].at + 4 + frames[i].len

C5_Witness ==
  \E i \in DOMAIN frames:
    /\ frames[i].len = 16 * 1024 * 1024
    /\ frames[i].read = 16 * 1024 * 1024
    /\ i < Len(frames)

\* C6: handling a control payload with tag 0x01 and at least 2 more bytes
\* b1 b2 leaves 256*b1 + b2 in the shared rotation value, whatever it held
\* before and whatever bytes follow; the shared value is what the latest
\* handling left.
C6_RotationIsBigEndianAngle ==
  /\ \A k \in DOMAIN ctrl:
       LET d == ctrl[k].data
       IN  (BLen(d) >= 3 /\ BAt(d, 0) = 1)
             => ctrl[k].after = 256 * BAt(d, 1) + BAt(d, 2)
  /\ rotation = IF ctrl = <<>> THEN 0 ELSE ctrl[Len(ctrl)].after

C6_Witness ==
  \E k \in DOMAIN ctrl:
    /\ BLen(ctrl[k].data) > 3
    /\ BAt(ctrl[k].data, 0) = 1
    /\ ctrl[k].before = 90
    /\ ctrl[k].after = 258
    /\ rotation = 258

\* a control payload the handler ignores: empty, an unknown tag, or tag 0x01
\* with fewer than 2 bytes after it
IgnoredControl(d) == BLen(d) = 0 \/ BAt(d, 0) # 1 \/ BLen(d) < 3

\* C7: an ignored control message leaves the shared rotation value as it
\* was and does not end the session: no error, and the reader goes on with
\* the next length field.
C7_MalformedControlIgnored ==
  \A k \in DOMAIN ctrl:
    IgnoredControl(ctrl[k].data)
      => /\ ctrl[k].after = ctrl[k].before
         /\ \E j \in DOMAIN frames:
              /\ frames[j].at + 4 = ctrl[k].at
              /\ frames[j].read = 4 + BLen(ctrl[k].data)
              /\ GoesOnAfter(j)

C7_Witness ==
  \E k \in DOMAIN ctrl:
    /\ ctrl[k].data = B(<<1, 0>>)
    /\ ctrl[k].before # 0
    /\ \E j \in DOMAIN frames: frames[j].at > ctrl[k].at

\* C8: a payload of valid length that starts with CTRL goes to
\* handle_control_message only, with no decoder call; every other payload of
\* valid length causes exactly one decoder call.
C8_ControlOnlyElseOneDecode ==
  \A j \in DOMAIN frames:
    (frames[j].len >= 1 /\ frames[j].len <= 16 * 1024 * 1024
       /\ frames[j].read = frames[j].len)
      => IF IsControl(frames[j].payload)
         THEN /\ Cardinality(CallsFor(decoded, j)) = 0
              /\ Cardinality(CallsFor(ctrl, j)) = 1
         ELSE /\ Cardinality(CallsFor(decoded, j)) = 1
              /\ Cardinality(CallsFor(ctrl, j)) = 0

\* the frames of the offers the channel accepted, in the order offered
AcceptedFrames ==
  LET acc == SelectSeq(offers, LAMBDA o: o.qlen < 4)
  IN  [i \in 1..Len(acc) |-> acc[i].frame]

\* C9: the hand-off queue never holds more than 4 frames; an offer made
\* while it holds 4 is dropped and leaves the queued frames as they were,
\* every other offer is queued; frames are taken in the order accepted.
\* (try_send never waits: an offer is an action enabled in every state.)
C9_QueueBoundedDropNewestFifo ==
  /\ Len(queue) <= 4
  /\ taken \o queue = AcceptedFrames
  /\ \A k \in DOMAIN offers: offers[k].qlen <= 4

C9_Witness ==
  /\ \E k \in DOMAIN offers: offers[k].qlen = 4
  /\ Len(queue) = 4
  /\ Len(taken) >= 2
  /\ queue[4] > taken[Len(taken)] + 4

C11_TruncatedToLastMiB ==
  /\ ~lastRead.err
       => /\ BLen(lastRead.rest) > 4 * 1024 * 1024
               => /\ BLen(lastRead.after) = 1024 * 1024
                  /\ lastRead.after
                       = BDrop(lastRead.rest, BLen(lastRead.rest) - 1024 * 1024)
                  /\ lastRead.calls = <<>>
                  /\ result \in {"none", "ok"}
                  /\ result = "none" /\ running => pc = "annexb"
          /\ BLen(lastRead.rest) <= 4 * 1024 * 1024
               => lastRead.after = lastRead.rest
          /\ pc = "annexb" /\ lastRead.chunk # <<>> => buf = lastRead.after
  /\ (BLen(lastRead.before) = 1024 * 1024
        /\ lastRead.chunk = BCat(B(<<0, 0, 1, 65>>), B(<<0, 0, 0, 1, 101, 65>>)))
       => /\ Len(lastRead.calls) >= 1
          /\ lastRead.calls[Len(lastRead.calls)].pkt = B(<<0, 0, 1, 65>>)
             \/ (lastRead.err /\ Len(lastRead.calls) = 1)
          /\ ~lastRead.err => lastRead.after = B(<<0, 0, 0, 1, 101, 65>>)

\* a truncation that kept filler and a start code, then a read of two units
\* that decoded the kept unit and the read's first unit
C11_Witness ==
  /\ BLen(lastRead.before) = 1024 * 1024
  /\ BSlice(lastRead.before, 1024 * 1024 - 4, 1024 * 1024) = B(<<0, 0, 1, 103>>)
  /\ Len(lastRead.calls) = 2
  /\ lastRead.calls[1].pkt = B(<<0, 0, 1, 103>>)
  /\ lastRead.calls[2].pkt = B(<<0, 0, 1, 65>>)
  /\ buf = B(<<0, 0, 0, 1, 101, 65>>)
  /\ result = "none"

\* a start code begins at index i of b: b[i..i+3] = 00 00 01 or
\* b[i..i+4] = 00 00 00 01
StartCodeAt(b, i) ==
  BSlice(b, i, i + 3) = B(<<0, 0, 1>>) \/ BSlice(b, i, i + 4) = B(<<0, 0, 0, 1>>)

\* C12: find_start_code(buf, offset) returns the smallest index i >= offset
\* at which a start code begins, and none when there is no such index or
\* fewer than 3 bytes remain from offset; it never reads an index at or past
\* buf.len() (which would panic).  The scanner the readers use returns the
\* same.
C12_SmallestStartCodeIndex ==
  /\ scan.st # "panic"
  /\ scan.hi < BLen(scan.buf)
  /\ scan.st = "done"
       => LET S == { i \in scan.offset..(BLen(scan.buf) - 1) :
                      StartCodeAt(scan.buf, i) }
          IN  /\ S = {} => scan.ret = -1
              /\ S # {} => scan.ret \in S /\ \A i \in S: scan.ret <= i
              /\ BLen(scan.buf) - scan.offset < 3 => scan.ret = -1
              /\ find_start_code(scan.buf, scan.offset) = scan.ret

\* a 4-byte start code found at the very end of the buffer, past the offset
C12_Witness ==
  /\ scan.st = "done"
  /\ scan.ret > scan.offset
  /\ scan.ret = BLen(scan.buf) - 4
  /\ BSlice(scan.buf, scan.ret, scan.ret + 4) = B(<<0, 0, 0, 1>>)
  /\ scan.hi = BLen(scan.buf) - 1

\* C13: every byte sequence handed to decoder.decode, by either reader in
\* any framing mode, begins with 00 00 01 or 00 00 00 01.
C13_DecoderInputHasStartCode ==
  \A k \in DOMAIN decoded:
    \/ BTake(decoded[k].pkt, 3) = B(<<0, 0, 1>>)
    \/ BTake(decoded[k].pkt, 4) = B(<<0, 0, 0, 1>>)

\* in Auto mode, a unit carved by the Annex-B reader in one session and a
\* bare 2-byte payload normalised by the length-prefixed reader in another
C13_Witness ==
  /\ mode = "Auto"
  /\ \E k \in DOMAIN decoded: decoded[k].n = 6 /\ BLen(decoded[k].pkt) = 6
  /\ \E k \in DOMAIN decoded: decoded[k].n = 2 /\ BLen(decoded[k].pkt) = 6

\* C14: for every payload of valid length that is not a control message,
\* the decoder is handed the payload unchanged when it begins with 00 00 01
\* or 00 00 00 01, whatever its length, and 00 00 00 01 followed by the
\* payload otherwise.
C14_PassThroughOrPrepend ==
  \A j \in DOMAIN frames:
    (frames[j].len >= 1 /\ frames[j].len <= 16 * 1024 * 1024
       /\ frames[j].read = frames[j].len /\ ~IsControl(frames[j].payload))
      => LET p == frames[j].payload
             begins == \/ BTake(p, 3) = B(<<0, 0, 1>>)
                       \/ BTake(p, 4) = B(<<0, 0, 0, 1>>)
         IN  \E k \in CallsFor(decoded, j):
               decoded[k].pkt = IF begins THEN p
                                ELSE BCat(B(<<0, 0, 0, 1>>), p)

\* what the forced mode that Auto resolves to does with the session's
\* connection, the decoder answering as it did in this session
ForcedRun ==
  LET chunks == conns[1].chunks
      res    == [k \in DOMAIN decoded |-> decoded[k].res]
  IN  IF BTake(NetBytes(chunks), 4) = B(<<0, 0, 0, 1>>)
      THEN ForcedAnnexB(chunks, <<>>, res, <<>>)
      ELSE ForcedLengthPrefixed(NetBytes(chunks), 0, <<>>, <<>>)

\* C15: in Auto mode the session reads the first 4 bytes of the connection;
\* when they are 00 00 00 01 the Annex-B reader starts with them as its
\* buffer, otherwise the length-prefixed reader takes them as the first
\* length.  When the session has ended (the running flag still set), the
\* packets handed to the decoder and the rotation values stored are, in
\* order, those of the forced mode on the same connection.
C15_AutoEqualsForcedMode ==
  /\ (pc = "annexb" /\ lastRead.chunk = <<>>)
       => /\ pos = 4
          /\ buf = B(<<0, 0, 0, 1>>)
          /\ buf = BTake(NetBytes(conns[1].chunks), 4)
          /\ decoded = <<>>
  /\ (pc = "lp" /\ Len(frames) = 1)
       => /\ frames[1].at = 0
          /\ frames[1].len = U32FromBe(BTake(NetBytes(conns[1].chunks), 4))
          /\ BTake(NetBytes(conns[1].chunks), 4) # B(<<0, 0, 0, 1>>)
  /\ (pc \in {"returned", "panicked"} /\ running)
       => /\ [k \in DOMAIN decoded |-> decoded[k].pkt] = ForcedRun.pkts
          /\ [k \in DOMAIN ctrl |-> ctrl[k].after] = ForcedRun.rots

\* an Auto session on an Annex-B connection that decoded the unit that
\* begins with the 4 peeked bytes, ended with the running flag set
C15_Witness ==
  /\ pc = "returned"
  /\ running
  /\ Len(decoded) >= 2
  /\ decoded[1].at = 0
  /\ decoded[1].pkt = B(<<0, 0, 0, 1, 101, 65>>)

\* C16: once the running flag is false, main's accept loop (with whichever
\* reader is active) and the discovery loop eventually exit by themselves,
\* whatever the peer does.
C16_LoopsExitOnceStopped ==
  (~running) ~> (pc = "exit" /\ pcD \in {"stopped", "failed"})

\* C17: every socket read error and every bind error met by a session ends
\* that session with an error result; after every error result main sleeps
\* its 1 s before it calls accept_and_stream again.
C17_ErrorsEndSessionThenBackoff ==
  /\ \A i \in DOMAIN log:
       log[i].ev \in {"reset", "error"}
         => IF i < Len(log) THEN log[i + 1].ev = "err"
            ELSE pc = "returned" /\ result = "io_error"
  /\ \A i \in DOMAIN log:
       (log[i].ev = "err" /\ i < Len(log)) => log[i + 1].ev = "slept"
  /\ \A i \in DOMAIN log:
       (log[i].ev = "call" /\ i > 1 /\ log[i - 1].ev # "ok")
         => log[i - 1].ev = "slept"

\* C18: when the peer closes the connection while the length-prefixed
\* reader waits for a length field or has part of one, the session returns
\* Ok, and main calls accept_and_stream again without the sleep.
C18_CloseAtLengthIsCleanDisconnect ==
  \A i \in DOMAIN log:
    (log[i].ev = "eof" /\ log[i].at = "length")
      => /\ i = Len(log) => pc = "returned" /\ result = "ok"
         /\ i < Len(log) => log[i + 1].ev = "ok"
         /\ i + 1 < Len(log) => log[i + 2].ev = "call"

\* a peer that closed with no byte of a length field sent, another that
\* closed after 2 bytes of one, and main in its next call
C18_Witness ==
  /\ \E i \in DOMAIN log:
       log[i].ev = "eof" /\ log[i].at = "length" /\ log[i].got = 0
  /\ \E i \in DOMAIN log:
       /\ log[i].ev = "eof" /\ log[i].at = "length" /\ log[i].got = 2
       /\ i + 1 < Len(log)
  /\ pc = "listening"

\* C19: at most one call of accept_and_stream is under way at any time:
\* main calls it again only after the previous call has returned (and, on
\* Err, the sleep is over), so whatever the decoder is handed comes from the
\* one session under way.
C19_OneSessionAtATime ==
  /\ Cardinality(active) <= 1
  /\ pc \in {"listening", "peek", "lp", "annexb", "blocked", "returned",
              "panicked"} => active = {sid}
  /\ pc \in {"accept", "backoff", "exit"} => active = {}
  /\ \A i \in DOMAIN log:
       (log[i].ev = "call" /\ i > 1) => log[i - 1].ev \in {"ok", "slept"}
  /\ \A i \in DOMAIN log: log[i].sid <= sid

\* a second session reading, after a first one that decoded
C19_Witness ==
  /\ sid = 2
  /\ pc \in {"lp", "annexb"}
  /\ pos > 0
  /\ active = {2}
  /\ decoded # <<>>
  /\ \E i \in DOMAIN log: log[i].ev = "accept" /\ log[i].sid = 1

\* C20: when a session starts (a peer is connected, nothing read yet),
\* everything a previous session could change is at its initial value: the
\* shared rotation value, the accumulation buffer, the decoder, the framing
\* selected.
C20_NewSessionStartsFresh ==
  (pc \in {"peek", "lp", "annexb"} /\ pos = 0)
    => /\ rotation = 0
       /\ buf = <<>>
       /\ decoder = 0
       /\ truncs = 0
       /\ mode = "Auto" => pc = "peek"

\* the bytes of a byte string, one by one
Bytes(s) == [i \in 1..BLen(s) |-> BAt(s, i - 1)]

RECURSIVE DigitsValue(_)
\* the number that a string of ASCII digits denotes
DigitsValue(d) ==
  IF d = <<>> THEN 0
  ELSE DigitsValue(SubSeq(d, 1, Len(d) - 1)) * 10 + (d[Len(d)] - 48)

\* text is "CAMSTREAM_SERVER:" followed by n in decimal
AnnouncesPort(text, n) ==
  LET d == Bytes(BDrop(text, 17))
  IN  /\ BTake(text, 17) = B(<<67, 65, 77, 83, 84, 82, 69, 65, 77, 95,
                               83, 69, 82, 86, 69, 82, 58>>)
      /\ d # <<>>
      /\ \A i \in DOMAIN d: d[i] \in 48..57
      /\ Len(d) > 1 => d[1] # 48
      /\ DigitsValue(d) = n

\* C21: the discovery responder replies only to a datagram whose bytes are
\* exactly CAMSTREAM_DISCOVER, with CAMSTREAM_SERVER: and the configured
\* TCP port in decimal, to that datagram's source address; every other
\* datagram gets no reply, and receiving a datagram changes nothing but the
\* responder's own position.
C21_ReplyOnlyToExactProbe ==
  /\ [](\A k \in DOMAIN udp:
          /\ udp[k].msg # B(<<67, 65, 77, 83, 84, 82, 69, 65, 77, 95,
                              68, 73, 83, 67, 79, 86, 69, 82>>)
               => udp[k].reply = <<>>
          /\ udp[k].reply # <<>>
               => /\ Len(udp[k].reply) = 1
                  /\ udp[k].reply[1].to = udp[k].src
                  /\ AnnouncesPort(udp[k].reply[1].bytes, port))
  /\ [][udp' # udp
          => UNCHANGED <<mode, running, rotation, net, pos, pc, result, buf,
                         queue, hist, sess, truncs, decoder, scan, port,
                         conv>>]_vars

\* a probe was answered, and the probe followed by a line feed was received
C21_Witness ==
  /\ port = 65535
  /\ \E j, k \in DOMAIN udp:
       /\ udp[j].msg = DISCOVERY_MESSAGE
       /\ udp[j].src = "b"
       /\ udp[j].reply # <<>>
       /\ udp[k].msg = BCat(DISCOVERY_MESSAGE, B(<<10>>))

\* C22: once the running flag is false the discovery responder's loop ends,
\* by its own test of the flag if the runtime is not dropped first, also
\* when no datagram ever arrives.
C22_DiscoveryLoopEnds ==
  (~running) ~> (pcD \in {"stopped", "failed", "cancelled"})

\* the flag was cleared while the network task waits for a peer that never
\* connects; no datagram ever arrived, and the responder's loop has ended
C22_Witness ==
  /\ ~running
  /\ pc = "listening"
  /\ dgrams = <<>>
  /\ udp = <<>>
  /\ pcD = "stopped"

\* C23: whatever the width, height, strides and plane buffers, the colour
\* converter does not fault, and the buffer it returns has exactly
\* width * height * 4 bytes of which every 4th (alpha) is 255, the pixels
\* skipped for an out-of-range plane index included.
C23_OutputSizeAndAlpha ==
  /\ conv.st # "panicked"
  /\ conv.st \in {"loop", "done"}
       => /\ Len(conv.rgba) = conv.w * conv.h * 4
          /\ \A i \in DOMAIN conv.rgba: i % 4 = 0 => conv.rgba[i] = 255
          /\ \A i \in DOMAIN conv.rgba: conv.rgba[i] \in 0..255

\* a 2 x 2 frame converted to the end, of which some pixels were skipped
\* and some were written
C23_Witness ==
  /\ conv.st = "done"
  /\ conv.w = 2
  /\ conv.h = 2
  /\ conv.skipped \in 1..3
  /\ \E i \in DOMAIN conv.rgba: conv.rgba[i] # 255

\* the bytes of the session's connection, read or still to come
Stream == NetBytes(conns[sid].chunks)

\* C24: the Annex-B reader decodes a unit only when its start code and a
\* later start code, at least 3 bytes after it, have both been read; the
\* bytes decoded are those from the first start code of the buffer up to
\* but excluding the next one, and after a decode that did not fail the
\* buffer starts with that next start code.  A unit with no start code
\* after it is never decoded, whatever is read after it and also when the
\* connection is closed.
C24_UnitDecodedOnlyBetweenStartCodes ==
  (sid = 1 /\ pc \in {"annexb", "returned", "exit"} /\ decoded # <<>>) =>
    LET got == BTake(Stream, pos)
    IN  /\ \A k \in DOMAIN decoded:
              LET d == decoded[k]
              IN  /\ StartCodeAt(got, d.at)
                  /\ d.n >= 3
                  /\ StartCodeAt(got, d.at + d.n)
                  /\ d.pkt = BSlice(got, d.at, d.at + d.n)
                  /\ \A j \in (d.at + 3)..(d.at + d.n - 1): ~StartCodeAt(got, j)
                  /\ k = 1 => \A j \in 0..(d.at - 1): ~StartCodeAt(got, j)
                  /\ k > 1 => d.at = decoded[k - 1].at + decoded[k - 1].n
        /\ LET last == decoded[Len(decoded)]
           IN  /\ pc = "annexb"
                    => /\ buf = BDrop(got, last.at + last.n)
                       /\ StartCodeAt(buf, 0)
               /\ result # "decode_error"
                    => \A j \in (last.at + last.n + 3)..(pos - 1):
                         ~StartCodeAt(got, j)

\* a unit was decoded, the next unit arrived whole and more bytes after it
\* in a second read, and the connection was closed: the last unit was
\* never decoded
C24_Witness ==
  /\ mode = "AnnexB"
  /\ pc = "returned"
  /\ result = "ok"
  /\ Len(decoded) = 1
  /\ decoded[1].pkt = B(<<0, 0, 1, 65>>)
  /\ BSlice(Stream, 4, 10) = B(<<0, 0, 0, 1, 101, 65>>)
  /\ pos = BLen(Stream)
  /\ pos > 10
  /\ lastRead.calls = <<>>

\* b holds a start code and another one at least 3 bytes after it
TwoStartCodes(b) ==
  \E i, j \in 0..(BLen(b) - 3):
    StartCodeAt(b, i) /\ StartCodeAt(b, j) /\ j >= i + 3

\* the loop taken step by step does what ExtractLoop computes
ExtractStepAgrees ==
  ext.st \in {"done", "failed"} =>
    LET r == extract_and_decode_nals(ext.buf0, 0, ext.outs)
    IN  /\ r.err = (ext.st = "failed")
        /\ r.buf = ext.buf
        /\ Len(r.calls) = Len(ext.outs)

\* C25: on every finite buffer the extraction loop terminates: an iteration
\* that decodes a unit and goes on has removed at least 3 bytes, and with
\* fewer than two start codes left in the buffer the loop exits at once.
C25_ExtractionLoopTerminates ==
  /\ [][ext.st = "loop" =>
          IF TwoStartCodes(ext.buf)
          THEN \/ ext'.st = "failed"
               \/ ext'.st = "loop" /\ BLen(ext'.buf) + 3 <= BLen(ext.buf)
          ELSE ext'.st = "done" /\ ext'.buf = ext.buf]_vars
  /\ <>(ext.st \in {"done", "failed"})

\* a buffer of three start codes and more, out of which the loop carved
\* two units before it exited
C25_Witness ==
  /\ ext.st = "done"
  /\ Len(ext.outs) = 2
  /\ BLen(ext.buf0) > BLen(ext.buf) + 6
  /\ BLen(ext.buf) > 3

\* C26: while a session reads in Annex-B mode, forced or chosen by Auto,
\* nothing it reads changes the shared rotation value or reaches
\* handle_control_message, the bytes CTRL 01 and an angle included; with the
\* mode forced to Annex-B the rotation value stays what main made it.
C26_AnnexBNeverChangesRotation ==
  /\ [](mode = "AnnexB" => rotation = 0 /\ ctrl = <<>>)
  /\ [][(pc = "annexb" \/ pc' = "annexb")
          => rotation' = rotation /\ ctrl' = ctrl]_vars

\* Auto took a connection for Annex-B after a length-prefixed session had
\* set the rotation to 90; a unit whose body is CTRL 01 00 5A was decoded
C26_Witness ==
  /\ mode = "Auto"
  /\ sid = 2
  /\ pc = "annexb"
  /\ rotation = 90
  /\ decoded # <<>>
  /\ decoded[Len(decoded)].pkt = BCat(B(<<0, 0, 0, 1>>), B(<<67, 84, 82, 76, 1, 0, 90>>))

\* C27: no payload of 1 to 16 MiB bytes that the length-prefixed reader
\* delivers makes classification or normalisation index a slice out of
\* range: the network task never panics, and every payload read in full
\* went on to the control handler or to the decoder.
C27_PayloadNeverPanics ==
  /\ pc # "panicked"
  /\ \A j \in DOMAIN frames:
       (frames[j].len >= 1 /\ frames[j].len <= 16 * 1024 * 1024
          /\ frames[j].read = frames[j].len)
         => CallsFor(decoded, j) \cup CallsFor(ctrl, j) # {}

====
